---- MODULE Spec2Model ----
(***************************************************************************)
(* Model of CVE_PushService.py: the fetch / parse / filter / dedup /       *)
(* persist / notify pipeline run by main(), the SQLite table vulns, the    *)
(* artifact new_vulns.flag and the notifications handed to sc_send.        *)
(*                                                                         *)
(* Conventions.  Scores are in tenths (9.8 is 98), timestamps are seconds. *)
(* A JSON value that may be absent is a pair of fields has<X> / <x>.  Ids, *)
(* vectors, descriptions and URLs are strings.                             *)
(***************************************************************************)
EXTENDS Integers, Sequences, FiniteSets, TLC

\* ------------------------------------------------------------------------
\* Program constants
\* ------------------------------------------------------------------------

\* CVSS_THRESHOLD = 7.0, in tenths
CVSS_THRESHOLD == 70

\* 1 * 3600 seconds, the window of is_recent
RECENT_WINDOW == 3600

\* [:3], the slice of the reference list
MAX_REFS == 3

\* ------------------------------------------------------------------------
\* Bounds of the model
\* ------------------------------------------------------------------------

\* number of invocations of main()
MaxRuns == 2

\* longest feed document, in entries
MaxFeedLen == 2

\* how many seconds the clock advances past its initial value
MaxTicks == 1

\* ------------------------------------------------------------------------
\* The shape of a raw feed entry (the JSON value handed to parse_cve_item)
\* ------------------------------------------------------------------------

NoCvssData == [hasBaseScore |-> FALSE, baseScore |-> 0,
               hasVectorString |-> FALSE, vectorString |-> ""]

CvssData(score, vector) ==
    [hasBaseScore |-> TRUE, baseScore |-> score,
     hasVectorString |-> TRUE, vectorString |-> vector]

\* one element of a cvssMetricV* list
Metric(data) == [hasCvssData |-> TRUE, cvssData |-> data]

MetricNoCvss == [hasCvssData |-> FALSE, cvssData |-> NoCvssData]

\* a scoring family of the metrics container: absent, or a list of metrics
NoFamily == [present |-> FALSE, list |-> <<>>]

Family(list) == [present |-> TRUE, list |-> list]

Metrics(v31, v30, v2) ==
    [cvssMetricV31 |-> v31, cvssMetricV30 |-> v30, cvssMetricV2 |-> v2]

NoMetrics == Metrics(NoFamily, NoFamily, NoFamily)

\* a publication timestamp: a string that parses to second t, or one that
\* does not parse under "%Y-%m-%dT%H:%M:%S.%f"
Timestamp(t) == [parses |-> TRUE, t |-> t]

BadTimestamp == [parses |-> FALSE, t |-> 0]

Desc(lang, value) == [lang |-> lang, hasValue |-> TRUE, value |-> value]

DescNoValue(lang) == [lang |-> lang, hasValue |-> FALSE, value |-> ""]

Ref(url) == [hasUrl |-> TRUE, url |-> url]

RefNoUrl == [hasUrl |-> FALSE, url |-> ""]

\* the value under 'cve'
CveData(hasId, id, hasPub, pub, descs, hasMetrics, metrics, refs) ==
    [hasId |-> hasId, id |-> id,
     hasPublished |-> hasPub, published |-> pub,
     descriptions |-> descs,
     hasMetrics |-> hasMetrics, metrics |-> metrics,
     references |-> refs]

EmptyCve ==
    CveData(FALSE, "", FALSE, BadTimestamp, <<>>, FALSE, NoMetrics, <<>>)

\* a feed entry: a JSON object with a 'cve' member, one without, or a value
\* that is no object at all
Item(cve) == [isRecord |-> TRUE, hasCve |-> TRUE, cve |-> cve]

ItemNoCve == [isRecord |-> TRUE, hasCve |-> FALSE, cve |-> EmptyCve]

ItemNonRecord == [isRecord |-> FALSE, hasCve |-> FALSE, cve |-> EmptyCve]

\* ------------------------------------------------------------------------
\* Pure functions of the pipeline
\* ------------------------------------------------------------------------

\* a window that is open at its edge
is_recent_strict(published, utcnow) ==
    IF ~published.parses
    THEN FALSE
    ELSE utcnow - published.t < RECENT_WINDOW

\* a window that does not reach into the future
is_recent_bounded(published, utcnow) ==
    IF ~published.parses
    THEN FALSE
    ELSE /\ utcnow - published.t >= 0
         /\ utcnow - published.t <= RECENT_WINDOW

\* is_recent: strptime, then utcnow() - published <= 3600 s; any exception
\* gives False
is_recent(published, utcnow) ==
    IF ~published.parses
    THEN FALSE
    ELSE utcnow - published.t <= RECENT_WINDOW

\* result of parse_cve_item: a record, None, or an exception leaving it
NoRecord ==
    [id |-> "", published_date |-> BadTimestamp, cvss_score |-> 0,
     description |-> "", vector_string |-> "", refs |-> <<>>, source |-> ""]

ParsedRecord(rec) == [kind |-> "record", exc |-> "", rec |-> rec]

ParsedNone(why) == [kind |-> "None", exc |-> why, rec |-> NoRecord]

ParsedRaise(exc) == [kind |-> "raise", exc |-> exc, rec |-> NoRecord]

\* vuln_info before the first turn of the loop
NotParsed == ParsedNone("")

\* next((desc['value'] for desc in descriptions if desc.get('lang') == 'en'),
\*      "No description available"); a KeyError leaves the generator
RECURSIVE FirstEnglish(_)
FirstEnglish(descs) ==
    IF descs = <<>>
    THEN [ok |-> TRUE, value |-> "No description available"]
    ELSE IF Head(descs).lang = "en"
         THEN IF Head(descs).hasValue
              THEN [ok |-> TRUE, value |-> Head(descs).value]
              ELSE [ok |-> FALSE, value |-> ""]
         ELSE FirstEnglish(Tail(descs))

\* family[0]['cvssData'], then .get('baseScore', 0.0) and
\* .get('vectorString', "N/A")
ScoreOfFamily(family) ==
    IF family.list = <<>>
    THEN [exc |-> "IndexError", score |-> 0, vector |-> ""]
    ELSE IF ~family.list[1].hasCvssData
         THEN [exc |-> "KeyError", score |-> 0, vector |-> ""]
         ELSE LET d == family.list[1].cvssData
              IN  [exc |-> "",
                   score |-> IF d.hasBaseScore THEN d.baseScore ELSE 0,
                   vector |-> IF d.hasVectorString THEN d.vectorString
                              ELSE "N/A"]

\* a chain that looks at the families in the opposite order
ExtractSeverity_v2first(cve) ==
    IF ~cve.hasMetrics
    THEN [exc |-> "", score |-> 0, vector |-> "N/A"]
    ELSE IF cve.metrics.cvssMetricV2.present
         THEN ScoreOfFamily(cve.metrics.cvssMetricV2)
         ELSE IF cve.metrics.cvssMetricV30.present
              THEN ScoreOfFamily(cve.metrics.cvssMetricV30)
              ELSE IF cve.metrics.cvssMetricV31.present
                   THEN ScoreOfFamily(cve.metrics.cvssMetricV31)
                   ELSE [exc |-> "", score |-> 0, vector |-> "N/A"]

\* the if / elif / elif over cvssMetricV31, cvssMetricV30, cvssMetricV2
ExtractSeverity(cve) ==
    IF ~cve.hasMetrics
    THEN [exc |-> "", score |-> 0, vector |-> "N/A"]
    ELSE IF cve.metrics.cvssMetricV31.present
         THEN ScoreOfFamily(cve.metrics.cvssMetricV31)
         ELSE IF cve.metrics.cvssMetricV30.present
              THEN ScoreOfFamily(cve.metrics.cvssMetricV30)
              ELSE IF cve.metrics.cvssMetricV2.present
                   THEN ScoreOfFamily(cve.metrics.cvssMetricV2)
                   ELSE [exc |-> "", score |-> 0, vector |-> "N/A"]

\* a reference list that is not sliced
ExtractRefs_all(references) ==
    [i \in 1..Len(references) |->
        IF references[i].hasUrl THEN references[i].url ELSE ""]

\* [ref.get('url', '') for ref in references][:3]
ExtractRefs(references) ==
    LET n == IF Len(references) < MAX_REFS THEN Len(references) ELSE MAX_REFS
    IN  [i \in 1..n |->
            IF references[i].hasUrl THEN references[i].url ELSE ""]

\* an id lookup without the default
IdOf_nodefault(cve) == cve.id

\* cve_data.get('id', 'UNKNOWN')
IdOf(cve) == IF cve.hasId THEN cve.id ELSE "UNKNOWN"

\* a threshold test that also rejects a score equal to the threshold
BelowThreshold_inclusive(score) == score <= CVSS_THRESHOLD

\* if cvss_score < CVSS_THRESHOLD: return None
BelowThreshold(score) == score < CVSS_THRESHOLD

parse_cve_item(cve_item, utcnow) ==
    IF ~cve_item.isRecord
    THEN ParsedRaise("TypeError")
    ELSE IF ~cve_item.hasCve
    THEN ParsedNone("KeyError:cve")
    ELSE LET cve == cve_item.cve
             sev == ExtractSeverity(cve)
             desc == FirstEnglish(cve.descriptions)
         IN  IF ~cve.hasPublished
             THEN ParsedNone("KeyError:published")
             ELSE IF ~is_recent(cve.published, utcnow)
             THEN ParsedNone("not recent")
             ELSE IF ~desc.ok
             THEN ParsedNone("KeyError:value")
             ELSE IF sev.exc = "IndexError"
             THEN ParsedRaise("IndexError")
             ELSE IF sev.exc = "KeyError"
             THEN ParsedNone("KeyError:cvssData")
             ELSE IF BelowThreshold(sev.score)
             THEN ParsedNone("below threshold")
             ELSE ParsedRecord(
                    [id |-> IdOf(cve),
                     published_date |-> cve.published,
                     cvss_score |-> sev.score,
                     description |-> desc.value,
                     vector_string |-> sev.vector,
                     refs |-> ExtractRefs(cve.references),
                     source |-> "NVD"])

\* ------------------------------------------------------------------------
\* The feed documents of the model
\* ------------------------------------------------------------------------

FiveRefs == <<Ref("u1"), Ref("u2"), Ref("u3"), Ref("u4"), Ref("u5")>>

\* published exactly at the initial instant
Fresh == Timestamp(RECENT_WINDOW)

\* published one window before the initial instant: elapsed = 3600 s there
Edge == Timestamp(0)

HighA ==
    Item(CveData(TRUE, "CVE-1", TRUE, Fresh, <<Desc("en", "d1")>>, TRUE,
                 Metrics(Family(<<Metric(CvssData(98, "AV:N"))>>),
                         NoFamily, NoFamily),
                 FiveRefs))

\* the same id as HighA with another payload
HighA2 ==
    Item(CveData(TRUE, "CVE-1", TRUE, Fresh, <<Desc("es", "x")>>, TRUE,
                 Metrics(NoFamily,
                         Family(<<Metric(CvssData(75, "AV:L"))>>), NoFamily),
                 <<Ref("u9")>>))

\* score exactly at the threshold, timestamp exactly at the window edge
EdgeB ==
    Item(CveData(TRUE, "CVE-2", TRUE, Edge, <<Desc("en", "d2")>>, TRUE,
                 Metrics(NoFamily, NoFamily,
                         Family(<<Metric(CvssData(70, "AV:A"))>>)),
                 <<Ref("u1"), RefNoUrl>>))

\* the winning family is below the threshold, an ignored family is above
LowB ==
    Item(CveData(TRUE, "CVE-2", TRUE, Fresh, <<Desc("en", "d2")>>, TRUE,
                 Metrics(Family(<<Metric(CvssData(69, "AV:N"))>>), NoFamily,
                         Family(<<Metric(CvssData(90, "AV:N"))>>)),
                 <<>>))

\* a scoring family that is present with an empty list
EmptyFamilyItem ==
    Item(CveData(TRUE, "CVE-2", TRUE, Fresh, <<Desc("en", "d2")>>, TRUE,
                 Metrics(Family(<<>>), NoFamily,
                         Family(<<Metric(CvssData(90, "AV:N"))>>)),
                 <<>>))

\* an English description without 'value'; everything else qualifies
NoValueItem ==
    Item(CveData(TRUE, "CVE-2", TRUE, Fresh, <<DescNoValue("en")>>, TRUE,
                 Metrics(Family(<<Metric(CvssData(98, "AV:N"))>>),
                         NoFamily, NoFamily),
                 <<>>))

\* the entries of the documents of several entries; the remaining forms of
\* entry are in Entries, below
Pool == {HighA, HighA2, EdgeB, LowB, NoValueItem, EmptyFamilyItem}

RECURSIVE SeqsUpTo(_, _)
SeqsUpTo(S, n) ==
    IF n = 0
    THEN {<<>>}
    ELSE LET shorter == SeqsUpTo(S, n - 1)
         IN  shorter \cup {Append(s, x) : s \in shorter, x \in S}

\* the non-empty documents a fetch can return
Feeds == SeqsUpTo(Pool, MaxFeedLen) \ {<<>>}

\* the documents served to overlapping invocations: entries that race for
\* the same id, with equal and with different payloads, and another id
OverlapFeeds == {<<HighA>>, <<HighA2>>, <<EdgeB>>, <<HighA, EdgeB>>}

\* published one second earlier than Edge: elapsed = 3601 s from the start
Stale == Timestamp(0 - 1)

\* published after every instant of the model
Future == Timestamp(3 * RECENT_WINDOW)

\* the forms of one scoring family
FamilyForms ==
    {NoFamily,
     Family(<<>>),
     Family(<<MetricNoCvss>>),
     Family(<<Metric(CvssData(98, "AV:N"))>>),
     Family(<<Metric(CvssData(50, "AV:L"))>>),
     Family(<<Metric([hasBaseScore |-> FALSE, baseScore |-> 0,
                      hasVectorString |-> TRUE, vectorString |-> "AV:A"])>>),
     Family(<<Metric(CvssData(75, "AV:P")), Metric(CvssData(20, "AV:N"))>>)}

\* the metrics member: absent, or any three families
MetricsForms ==
    {[has |-> FALSE, m |-> NoMetrics]}
        \cup {[has |-> TRUE, m |-> Metrics(a, b, c)] :
                 a \in FamilyForms, b \in FamilyForms, c \in FamilyForms}

HighV31 == Metrics(Family(<<Metric(CvssData(98, "AV:N"))>>), NoFamily, NoFamily)

\* reference lists of 0 to 5 URLs, and one with a reference without 'url'
RefsForms ==
    {SubSeq(FiveRefs, 1, n) : n \in 0..5} \cup {<<Ref("u1"), RefNoUrl, Ref("u3")>>}

DescForms ==
    {<<>>, <<Desc("en", "d1")>>, <<DescNoValue("en")>>,
     <<Desc("es", "x"), Desc("en", "d1"), Desc("en", "d2")>>}

\* entries that differ in metrics only
MetricsSweep ==
    {Item(CveData(TRUE, "CVE-2", TRUE, Fresh, <<Desc("en", "d1")>>, mf.has,
                  mf.m, <<Ref("u1")>>)) : mf \in MetricsForms}

\* entries that differ in the reference list only
RefsSweep ==
    {Item(CveData(TRUE, "CVE-2", TRUE, Fresh, <<Desc("en", "d1")>>, TRUE,
                  HighV31, refs)) : refs \in RefsForms}

\* entries over the members parse_cve_item looks up before the metrics
StructureSweep ==
    {Item(CveData(hasId, "CVE-2", pub.has, pub.ts, descs, mf.has, mf.m,
                  <<Ref("u1")>>)) :
        hasId \in BOOLEAN,
        pub \in {[has |-> FALSE, ts |-> BadTimestamp]}
                   \cup {[has |-> TRUE, ts |-> ts] :
                            ts \in {BadTimestamp, Fresh, Edge, Stale, Future}},
        descs \in DescForms,
        mf \in {[has |-> FALSE, m |-> NoMetrics],
                [has |-> TRUE, m |-> HighV31],
                [has |-> TRUE, m |-> Metrics(Family(<<>>), NoFamily, NoFamily)],
                [has |-> TRUE,
                 m |-> Metrics(NoFamily, NoFamily,
                               Family(<<Metric(CvssData(69, "AV:N"))>>))]}}

\* the entries of the one-entry documents
Entries ==
    MetricsSweep \cup RefsSweep \cup StructureSweep
        \cup {ItemNoCve, ItemNonRecord}

EntryFeeds == {<<e>> : e \in Entries}

\* a row left in vulns by an earlier invocation
OldRow ==
    [id |-> "CVE-1", published_date |-> Timestamp(0 - RECENT_WINDOW),
     cvss_score |-> 80, description |-> "old", vector_string |-> "AV:P",
     refs |-> <<"u0">>, source |-> "NVD"]

InitialStores == {{}, {OldRow}}

\* ------------------------------------------------------------------------
\* State
\* ------------------------------------------------------------------------

Runs == 1..MaxRuns

VARIABLES
    now,          \* datetime.utcnow(), in seconds
    store,        \* the rows of table vulns
    flag,         \* the file new_vulns.flag
    sent,         \* the calls of sc_send, in order
    pc,           \* where each invocation of main() is
    items,        \* cve_items of each invocation
    idx,          \* position of the for loop in cve_items
    vuln_info,    \* what parse_cve_item returned in this turn of the loop
    new_vulns,    \* counter of main()
    new_ids,      \* list of main()
    fetches,      \* the calls of fetch_nvd_data of each invocation
    inserted,     \* ids of the rows each invocation added
    wrote,        \* the invocation has written new_vulns.flag
    snapshot      \* the document the feed serves while it does not change;
                  \* <<>> while the feed may serve any document

vars ==
    <<now, store, flag, sent, pc, items, idx, vuln_info, new_vulns, new_ids,
      fetches, inserted, wrote, snapshot>>

StartNow == RECENT_WINDOW

NoFlag == [exists |-> FALSE, count |-> 0, ids |-> <<>>]

Ids(rows) == {row.id : row \in rows}

Finished == {"Done", "Crashed", "Killed"}

Active == {"FetchRecent", "FetchYear", "Loop", "Persisting", "Notifying"}

InitPipeline ==
    /\ now = StartNow
    /\ store \in InitialStores
    /\ flag = NoFlag
    /\ sent = <<>>
    /\ pc = [r \in Runs |-> "Idle"]
    /\ items = [r \in Runs |-> <<>>]
    /\ idx = [r \in Runs |-> 1]
    /\ vuln_info = [r \in Runs |-> NotParsed]
    /\ new_vulns = [r \in Runs |-> 0]
    /\ new_ids = [r \in Runs |-> <<>>]
    /\ fetches = [r \in Runs |-> <<>>]
    /\ inserted = [r \in Runs |-> <<>>]
    /\ wrote = [r \in Runs |-> FALSE]

\* the feed changes freely between the fetches
Init ==
    /\ InitPipeline
    /\ snapshot = <<>>

\* the feed serves one document throughout
InitFrozen ==
    /\ InitPipeline
    /\ snapshot \in Feeds

\* ------------------------------------------------------------------------
\* The store
\* ------------------------------------------------------------------------

\* a dedup check that finds every record new
is_new_vuln_always(rows, info) == TRUE

\* is_new_vuln: SELECT 1 FROM vulns WHERE id=? finds no row
is_new_vuln(rows, info) == \A row \in rows : row.id # info.id

\* an INSERT that is never committed
save_vuln_lost(rows, info) == rows

\* an INSERT into a table whose id column is no key
save_vuln_nokey(rows, info) == rows \cup {info}

\* an INSERT OR REPLACE: the row of a duplicate key gives way to the new one
save_vuln_replace(rows, info) ==
    {row \in rows : row.id # info.id} \cup {info}

\* save_vuln: INSERT under id TEXT PRIMARY KEY; the IntegrityError of a
\* duplicate key is swallowed and the table is left as it was
save_vuln(rows, info) ==
    IF \E row \in rows : row.id = info.id
    THEN rows
    ELSE rows \cup {info}

\* ------------------------------------------------------------------------
\* main()
\* ------------------------------------------------------------------------

\* runs are started in the order of their numbers
MayStart(r) == pc[r] = "Idle" /\ (IF r = 1 THEN TRUE ELSE pc[r - 1] # "Idle")

\* logger.info("Starting CVE monitoring...") and init_db(): CREATE TABLE IF
\* NOT EXISTS leaves the rows of an existing table alone
Begin(r) ==
    /\ pc' = [pc EXCEPT ![r] = "FetchRecent"]
    /\ UNCHANGED <<now, store, flag, sent, items, idx, vuln_info, new_vulns,
                   new_ids, fetches, inserted, wrote, snapshot>>

\* an invocation that starts while another is still running
StartOverlapping(r) ==
    /\ MayStart(r)
    /\ Begin(r)

\* a scheduler that does not wait for the earlier invocations to end
StartAlone_anytime(r) ==
    /\ MayStart(r)
    /\ Begin(r)

\* an invocation that starts once every earlier one has ended
StartAlone(r) ==
    /\ MayStart(r)
    /\ \A q \in Runs : pc[q] \in Finished \cup {"Idle"}
    /\ Begin(r)

\* fetch_nvd_data returned doc: [] on any failure or on an empty document
Fetched(r, window, doc) ==
    /\ fetches' = [fetches EXCEPT ![r] =
                      Append(@, [window |-> window, empty |-> doc = <<>>])]
    /\ items' = [items EXCEPT ![r] = doc]
    /\ idx' = [idx EXCEPT ![r] = 1]

\* a main() without the fallback fetch
AfterFetchRecent_nofallback(doc) == "Loop"

\* if not cve_items: cve_items = fetch_nvd_data(use_recent=False)
AfterFetchRecent(doc) == IF doc = <<>> THEN "FetchYear" ELSE "Loop"

\* if not cve_items: return 0
AfterFetchYear(doc) == IF doc = <<>> THEN "Done" ELSE "Loop"

\* cve_items = fetch_nvd_data(use_recent=True) and the test after it
FetchRecent(r, served) ==
    /\ pc[r] = "FetchRecent"
    /\ \E doc \in served \cup {<<>>} :
          /\ Fetched(r, "recent", doc)
          /\ pc' = [pc EXCEPT ![r] = AfterFetchRecent(doc)]
    /\ UNCHANGED <<now, store, flag, sent, vuln_info, new_vulns, new_ids,
                   inserted, wrote, snapshot>>

\* cve_items = fetch_nvd_data(use_recent=False) and the test after it
FetchYear(r, served) ==
    /\ pc[r] = "FetchYear"
    /\ \E doc \in served \cup {<<>>} :
          /\ Fetched(r, "year", doc)
          /\ pc' = [pc EXCEPT ![r] = AfterFetchYear(doc)]
    /\ UNCHANGED <<now, store, flag, sent, vuln_info, new_vulns, new_ids,
                   inserted, wrote, snapshot>>

\* the locals of main() are gone once it has returned or died
EndOfRun(r, how) ==
    /\ pc' = [pc EXCEPT ![r] = how]
    /\ items' = [items EXCEPT ![r] = <<>>]
    /\ idx' = [idx EXCEPT ![r] = 1]
    /\ vuln_info' = [vuln_info EXCEPT ![r] = NotParsed]

\* a loop that notifies a new record without saving it first
ProcessItem_notify_first(r) ==
    /\ pc[r] = "Loop"
    /\ idx[r] <= Len(items[r])
    /\ LET parsed == parse_cve_item(items[r][idx[r]], now)
       IN  IF parsed.kind = "raise"
           THEN EndOfRun(r, "Crashed")
           ELSE /\ vuln_info' = [vuln_info EXCEPT ![r] = parsed]
                /\ IF parsed.kind = "record" /\ is_new_vuln(store, parsed.rec)
                   THEN /\ pc' = [pc EXCEPT ![r] = "Notifying"]
                        /\ UNCHANGED idx
                   ELSE /\ idx' = [idx EXCEPT ![r] = @ + 1]
                        /\ UNCHANGED pc
                /\ UNCHANGED items
    /\ UNCHANGED <<now, store, flag, sent, new_vulns, new_ids, fetches,
                   inserted, wrote, snapshot>>

\* one turn of the for loop up to the test of line 230:
\* vuln_info = parse_cve_item(item); if vuln_info and is_new_vuln(vuln_info)
ProcessItem(r) ==
    /\ pc[r] = "Loop"
    /\ idx[r] <= Len(items[r])
    /\ LET parsed == parse_cve_item(items[r][idx[r]], now)
       IN  IF parsed.kind = "raise"
           THEN EndOfRun(r, "Crashed")
           ELSE /\ vuln_info' = [vuln_info EXCEPT ![r] = parsed]
                /\ IF parsed.kind = "record" /\ is_new_vuln(store, parsed.rec)
                   THEN /\ pc' = [pc EXCEPT ![r] = "Persisting"]
                        /\ UNCHANGED idx
                   ELSE /\ idx' = [idx EXCEPT ![r] = @ + 1]
                        /\ UNCHANGED pc
                /\ UNCHANGED items
    /\ UNCHANGED <<now, store, flag, sent, new_vulns, new_ids, fetches,
                   inserted, wrote, snapshot>>

\* save_vuln(vuln_info)
Persist(r) ==
    /\ pc[r] = "Persisting"
    /\ store' = save_vuln(store, vuln_info[r].rec)
    /\ inserted' = [inserted EXCEPT ![r] =
                       IF store' # store THEN Append(@, vuln_info[r].rec.id)
                       ELSE @]
    /\ pc' = [pc EXCEPT ![r] = "Notifying"]
    /\ UNCHANGED <<now, flag, sent, items, idx, vuln_info, new_vulns,
                   new_ids, fetches, wrote, snapshot>>

\* a send_notification that lets the exception of sc_send out
AfterNotify_raises(delivered) == IF delivered THEN "Loop" ELSE "Crashed"

\* where main() goes after send_notification: sc_send is inside try/except
\* Exception, so a failed delivery returns like a successful one
AfterNotify(delivered) == "Loop"

\* send_notification(vuln_info); new_vulns += 1; new_ids.append(id)
Notify(r) ==
    /\ pc[r] = "Notifying"
    /\ \E delivered \in BOOLEAN :
          /\ sent' = Append(sent, [run |-> r, id |-> vuln_info[r].rec.id,
                                   delivered |-> delivered])
          /\ IF AfterNotify(delivered) = "Loop"
             THEN /\ pc' = [pc EXCEPT ![r] = "Loop"]
                  /\ new_vulns' = [new_vulns EXCEPT ![r] = @ + 1]
                  /\ new_ids' = [new_ids EXCEPT ![r] =
                                    Append(@, vuln_info[r].rec.id)]
                  /\ idx' = [idx EXCEPT ![r] = @ + 1]
                  /\ UNCHANGED <<items, vuln_info>>
             ELSE /\ EndOfRun(r, "Crashed")
                  /\ UNCHANGED <<new_vulns, new_ids>>
    /\ UNCHANGED <<now, store, flag, fetches, inserted, wrote, snapshot>>

\* a summary that writes the artifact whatever the count
Summarize_always(r) ==
    /\ pc[r] = "Loop"
    /\ idx[r] > Len(items[r])
    /\ flag' = [exists |-> TRUE, count |-> new_vulns[r], ids |-> new_ids[r]]
    /\ wrote' = [wrote EXCEPT ![r] = TRUE]
    /\ EndOfRun(r, "Done")
    /\ UNCHANGED <<now, store, sent, new_vulns, new_ids, fetches, inserted,
                   snapshot>>

\* a summary that removes the artifact when nothing is new
Summarize_clears(r) ==
    /\ pc[r] = "Loop"
    /\ idx[r] > Len(items[r])
    /\ flag' = IF new_vulns[r] > 0
               THEN [exists |-> TRUE, count |-> new_vulns[r],
                     ids |-> new_ids[r]]
               ELSE NoFlag
    /\ wrote' = [wrote EXCEPT ![r] = new_vulns[r] > 0]
    /\ EndOfRun(r, "Done")
    /\ UNCHANGED <<now, store, sent, new_vulns, new_ids, fetches, inserted,
                   snapshot>>

\* the end of the loop: the summary line, the artifact when new_vulns > 0,
\* return 0
Summarize(r) ==
    /\ pc[r] = "Loop"
    /\ idx[r] > Len(items[r])
    /\ flag' = IF new_vulns[r] > 0
               THEN [exists |-> TRUE, count |-> new_vulns[r],
                     ids |-> new_ids[r]]
               ELSE flag
    /\ wrote' = [wrote EXCEPT ![r] = new_vulns[r] > 0]
    /\ EndOfRun(r, "Done")
    /\ UNCHANGED <<now, store, sent, new_vulns, new_ids, fetches, inserted,
                   snapshot>>

\* the process is terminated from outside, between two steps
Kill(r) ==
    /\ pc[r] \in Active
    /\ EndOfRun(r, "Killed")
    /\ UNCHANGED <<now, store, flag, sent, new_vulns, new_ids, fetches,
                   inserted, wrote, snapshot>>

\* the wall clock advances
Tick ==
    /\ now < StartNow + MaxTicks
    /\ now' = now + 1
    /\ UNCHANGED <<store, flag, sent, pc, items, idx, vuln_info, new_vulns,
                   new_ids, fetches, inserted, wrote, snapshot>>

Step(r, served) ==
    \/ FetchRecent(r, served)
    \/ FetchYear(r, served)
    \/ ProcessItem(r)
    \/ Persist(r)
    \/ Notify(r)
    \/ Summarize(r)
    \/ Kill(r)

\* invocations one after the other (an external scheduler, no overlap)
Next ==
    \/ \E r \in Runs : StartAlone(r)
    \/ \E r \in Runs : Step(r, Feeds)
    \/ Tick

Spec == Init /\ [][Next]_vars

\* invocations that may overlap
NextOverlap ==
    \/ \E r \in Runs : StartOverlapping(r)
    \/ \E r \in Runs : Step(r, OverlapFeeds)
    \/ Tick

SpecOverlap == Init /\ [][NextOverlap]_vars

\* one invocation over a document of one entry, for every form of entry
NextEntry ==
    \/ StartAlone(1)
    \/ Step(1, EntryFeeds)
    \/ Tick

SpecEntry == Init /\ [][NextEntry]_vars

\* invocations one after the other while the feed serves one document
NextFrozen ==
    \/ \E r \in Runs : StartAlone(r)
    \/ \E r \in Runs : Step(r, {snapshot})
    \/ Tick

SpecFrozen == InitFrozen /\ [][NextFrozen]_vars

\* ------------------------------------------------------------------------
\* Properties
\* ------------------------------------------------------------------------

\* the positions of sent that satisfy P
NotifiedBy(r) == {i \in 1..Len(sent) : sent[i].run = r}

NotifiedFor(id) == {i \in 1..Len(sent) : sent[i].id = id}

AllIds == {"CVE-1", "CVE-2", "UNKNOWN"}

\* invocation r has worked through the whole document and returned
Completed(r) ==
    /\ pc[r] = "Done"
    /\ fetches[r] # <<>>
    /\ ~fetches[r][Len(fetches[r])].empty

\* invocation r has started its loop over the document
Processing(r) ==
    /\ fetches[r] # <<>>
    /\ ~fetches[r][Len(fetches[r])].empty

\* C1 (idempotence): an invocation that processes the very document an
\* earlier, completed invocation processed finds nothing new: it inserts no
\* row, attempts no notification, counts 0 new records and writes no
\* artifact.
C1_Idempotence ==
    \A q \in Runs : \A r \in Runs :
        (q < r /\ Completed(q) /\ Processing(r)) =>
            /\ new_vulns[r] = 0
            /\ new_ids[r] = <<>>
            /\ inserted[r] = <<>>
            /\ NotifiedBy(r) = {}
            /\ pc[r] \notin {"Persisting", "Notifying"}
            /\ ~wrote[r]

\* the second of two completed invocations on one document, the first of
\* which had found something new
C1_Witness ==
    \E r \in Runs :
        /\ r > 1
        /\ Completed(r)
        /\ Completed(r - 1)
        /\ new_vulns[r - 1] > 0

\* C2: with overlapping invocations no id is notified more than once in
\* total; the invocation whose INSERT hits the duplicate key sends nothing.
C2_OverlapNotifiesOnce ==
    /\ \A id \in AllIds : Cardinality(NotifiedFor(id)) <= 1
    /\ \A i \in 1..Len(sent) :
          \E k \in 1..Len(inserted[sent[i].run]) :
              inserted[sent[i].run][k] = sent[i].id

\* C3: with invocations one after the other no id is notified more than
\* once, and an id that was in the store from the start is never notified.
C3_NeverNotifiedAgain ==
    /\ \A id \in AllIds : Cardinality(NotifiedFor(id)) <= 1
    /\ OldRow \in store => NotifiedFor(OldRow.id) = {}

\* a document that lists one id twice has been worked through, and a later
\* invocation has met the id again
C3_Witness ==
    /\ Cardinality(NotifiedFor("CVE-1")) = 1
    /\ \E r \in Runs :
          /\ r > 1
          /\ pc[r] = "Loop"
          /\ items[r] = <<HighA, HighA2>>
          /\ idx[r] = 3
          /\ inserted[r - 1] = <<"CVE-1">>

\* C4: once an invocation was terminated and the pipeline was invoked again
\* on the same document and has completed, every id that an invocation put
\* into the store has had a notification attempt.
C4_PersistedIsNotified ==
    \A q \in Runs : \A r \in Runs :
        (r < q /\ pc[r] = "Killed" /\ Completed(q)) =>
            \A k \in 1..Len(inserted[r]) :
                NotifiedFor(inserted[r][k]) # {}

\* the entry is an object whose lookups all succeed: 'cve', 'published', the
\* 'value' of the English description, the 'cvssData' of the first metric
WellFormed(e) ==
    /\ e.isRecord
    /\ e.hasCve
    /\ e.cve.hasPublished
    /\ FirstEnglish(e.cve.descriptions).ok
    /\ ExtractSeverity(e.cve).exc = ""

\* the three conditions of persistence, on the entry and the store
Qualifies(e, t, rows) ==
    /\ ExtractSeverity(e.cve).score >= CVSS_THRESHOLD
    /\ e.cve.published.parses
    /\ t - e.cve.published.t <= RECENT_WINDOW
    /\ IdOf(e.cve) \notin Ids(rows)

\* run r takes the step of the loop that parses and dedup-checks an entry
ChecksEntry(r) ==
    /\ pc[r] = "Loop"
    /\ idx[r] <= Len(items[r])
    /\ pc'[r] # "Killed"
    /\ (pc'[r] # pc[r] \/ idx'[r] # idx[r])

\* the check of line 230 lets exactly the qualifying entries through, with
\* the record of the entry
CheckedRight(r) ==
    LET e == items[r][idx[r]]
    IN  /\ WellFormed(e) =>
              (pc'[r] = "Persisting" <=> Qualifies(e, now, store))
        /\ pc'[r] = "Persisting" =>
              (/\ WellFormed(e)
               /\ vuln_info'[r].rec.id = IdOf(e.cve)
               /\ vuln_info'[r].rec.cvss_score = ExtractSeverity(e.cve).score
               /\ vuln_info'[r].rec.published_date = e.cve.published)

\* run r takes the step that saves its record
Saves(r) == pc[r] = "Persisting" /\ pc'[r] = "Notifying"

PersistStep ==
    /\ \A r \in Runs : ChecksEntry(r) => CheckedRight(r)
    /\ \A q \in Runs :
          Saves(q) =>
              (vuln_info[q].rec \notin store
                  /\ store' = store \cup {vuln_info[q].rec})
    /\ store' # store => \E q \in Runs : Saves(q)

\* C5: a well-formed entry goes on to be persisted iff its resolved score is
\* >= the threshold, its timestamp is within the window at evaluation time
\* and its id is not in the store; the row then inserted is that entry's
\* record; nothing else changes the store; every stored score is >= the
\* threshold.
C5_PersistedIff ==
    /\ [](\A row \in store : row.cvss_score >= CVSS_THRESHOLD)
    /\ [][PersistStep]_vars

\* the entry whose score is exactly the threshold and whose age is exactly
\* the window has been persisted, and a below-threshold entry was skipped
C5_Witness ==
    /\ \E row \in store :
          row.id = "CVE-2" /\ row.cvss_score = CVSS_THRESHOLD
    /\ \E r \in Runs :
          /\ pc[r] = "Loop"
          /\ idx[r] = 3
          /\ items[r] = <<LowB, EdgeB>>
          /\ new_ids[r] = <<"CVE-2">>

\* C6 (uniqueness): no two rows of the store share an id, whatever the
\* interleaving of the invocations.
C6_UniqueIds ==
    \A a \in store : \A b \in store : a.id = b.id => a = b

\* an INSERT has hit the key of a row with another payload
C6_Witness ==
    \E r \in Runs :
        /\ pc[r] = "Notifying"
        /\ vuln_info[r].rec \notin store
        /\ vuln_info[r].rec.id \in Ids(store)
        /\ OldRow \notin store

\* C7 (isolation): no entry aborts the batch; whatever is wrong with an
\* entry, the invocation goes on to the entries after it.
C7_NoEntryAbortsBatch ==
    \A r \in Runs : pc[r] # "Crashed"

\* invocation r has parsed the only entry of its document
ParsedOnly(r) ==
    /\ Len(items[r]) = 1
    /\ vuln_info[r] # NotParsed

\* nothing of invocation r reached the store or the notifier
Untouched(r) ==
    /\ vuln_info[r].kind = "None"
    /\ pc[r] \notin {"Persisting", "Notifying"}
    /\ inserted[r] = <<>>
    /\ NotifiedBy(r) = {}

\* C8: an entry without identifier or without publication timestamp yields
\* no record, is not persisted and is not notified.
C8_MissingFieldRejected ==
    \A r \in Runs :
        ParsedOnly(r) =>
            LET e == items[r][1]
            IN  (e.hasCve /\ (~e.cve.hasId \/ ~e.cve.hasPublished))
                    => Untouched(r)

\* C8 as amended: an entry without 'cve' or without publication timestamp
\* yields no record, is not persisted and is not notified; an entry that
\* lacks only the identifier is not rejected for it: when it qualifies
\* otherwise its record carries the id "UNKNOWN".
C8_MissingPublishedRejected ==
    \A r \in Runs :
        ParsedOnly(r) =>
            LET e == items[r][1]
            IN  /\ (~e.hasCve \/ ~e.cve.hasPublished) => Untouched(r)
                /\ (/\ WellFormed(e)
                    /\ ~e.cve.hasId
                    /\ is_recent(e.cve.published, now)
                    /\ ExtractSeverity(e.cve).score >= CVSS_THRESHOLD)
                       => (/\ vuln_info[r].kind = "record"
                           /\ vuln_info[r].rec.id = "UNKNOWN")

\* an entry that has an id, metrics above the threshold and no publication
\* timestamp has been skipped for the missing key
C8_Witness ==
    \E r \in Runs :
        /\ ParsedOnly(r)
        /\ items[r][1].hasCve
        /\ items[r][1].cve.hasId
        /\ ~items[r][1].cve.hasPublished
        /\ items[r][1].cve.metrics = HighV31
        /\ vuln_info[r].exc = "KeyError:published"
        /\ idx[r] = 2

\* C9 (fetch protocol): the first fetch is the recent window; the year
\* window is fetched once, and only after an empty first result; at most two
\* fetches; the loop runs on a non-empty document only; after two empty
\* results the invocation is over with nothing inserted, notified, counted
\* or written.
C9_FetchProtocol ==
    \A r \in Runs :
        LET f == fetches[r]
        IN  /\ Len(f) <= 2
            /\ Len(f) >= 1 => f[1].window = "recent"
            /\ Len(f) = 2 => (f[1].empty /\ f[2].window = "year")
            /\ pc[r] \in {"Idle", "FetchRecent"} => Len(f) = 0
            /\ pc[r] = "FetchYear" => (Len(f) = 1 /\ f[1].empty)
            /\ pc[r] \in {"Loop", "Persisting", "Notifying"} =>
                  (Len(f) >= 1 /\ ~f[Len(f)].empty /\ items[r] # <<>>)
            /\ pc[r] \in {"Done", "Crashed"} =>
                  (Len(f) >= 1 /\ (f[1].empty => Len(f) = 2))
            /\ (Len(f) = 2 /\ f[2].empty) =>
                  (/\ pc[r] = "Done"
                   /\ new_vulns[r] = 0
                   /\ new_ids[r] = <<>>
                   /\ inserted[r] = <<>>
                   /\ NotifiedBy(r) = {}
                   /\ ~wrote[r])

\* the first fetch failed, the fallback returned a qualifying entry, and the
\* entry has been inserted, notified, counted and written to the artifact
C9_Witness ==
    \E r \in Runs :
        /\ Len(fetches[r]) = 2
        /\ ~fetches[r][2].empty
        /\ pc[r] = "Done"
        /\ inserted[r] = <<"CVE-1">>
        /\ new_ids[r] = <<"CVE-1">>
        /\ NotifiedBy(r) # {}
        /\ wrote[r]

\* the notification that run r attempts in this step fails
NotifyFails(r) ==
    /\ pc[r] = "Notifying"
    /\ Len(sent') = Len(sent) + 1
    /\ sent'[Len(sent')].run = r
    /\ ~sent'[Len(sent')].delivered

\* the record stays stored and counted, and the loop goes on
Contained(r) ==
    /\ store' = store
    /\ vuln_info[r].rec \in store'
    /\ pc'[r] = "Loop"
    /\ items'[r] = items[r]
    /\ idx'[r] = idx[r] + 1
    /\ new_vulns'[r] = new_vulns[r] + 1
    /\ new_ids'[r] = Append(new_ids[r], vuln_info[r].rec.id)

NotifyStep ==
    /\ \A r \in Runs : NotifyFails(r) => Contained(r)
    /\ \A r \in Runs :
          (pc'[r] = "Crashed" /\ pc[r] # "Crashed") => pc[r] = "Loop"

\* C10: a failed notification leaves the record in the store, counts it as
\* new and lets the loop go on to the next entry; no invocation dies in the
\* notification step; the count of a completed invocation includes the
\* records whose notification failed.
C10_NotifyFailureContained ==
    /\ [](\A r \in Runs :
            pc[r] \in {"Loop", "Done"} =>
                new_vulns[r] = Cardinality(NotifiedBy(r)))
    /\ [][NotifyStep]_vars

\* an invocation completed after a failed notification followed by a
\* delivered one, with both records stored, counted and listed
C10_Witness ==
    \E r \in Runs :
        /\ pc[r] = "Done"
        /\ Len(sent) = 2
        /\ sent[1].run = r /\ ~sent[1].delivered
        /\ sent[2].run = r /\ sent[2].delivered
        /\ new_vulns[r] = 2
        /\ flag = [exists |-> TRUE, count |-> 2,
                   ids |-> <<sent[1].id, sent[2].id>>]
        /\ {sent[1].id, sent[2].id} \subseteq Ids(store)

\* sys.exit(main()): 0 when main() returned, 1 when an exception left it;
\* -1 stands for an invocation that has not exited by itself
ExitStatus(r) ==
    IF pc[r] = "Done" THEN 0 ELSE IF pc[r] = "Crashed" THEN 1 ELSE 0 - 1

\* C11: an invocation that ends by itself ends in Done with exit status 0,
\* whatever the fetches returned and whatever entries the document holds
\* (the model has no setup failure, so no exit status other than 0 is due).
C11_EndsDoneExitZero ==
    \A r \in Runs :
        (pc[r] \notin Active \cup {"Idle", "Killed"}) =>
            (pc[r] = "Done" /\ ExitStatus(r) = 0)

\* the scoring families in the order of the if / elif chain
FamilyPriority == <<"cvssMetricV31", "cvssMetricV30", "cvssMetricV2">>

\* the positions in FamilyPriority of the families an entry exposes
PresentFamilies(cve) ==
    {i \in 1..Len(FamilyPriority) :
        cve.hasMetrics /\ cve.metrics[FamilyPriority[i]].present}

\* the entry of run r got as far as the severity extraction
ReachedSeverity(r) ==
    /\ ParsedOnly(r)
    /\ items[r][1].isRecord
    /\ items[r][1].hasCve
    /\ items[r][1].cve.hasPublished
    /\ vuln_info[r].exc \notin {"not recent", "KeyError:value"}

\* what the first metric of family fam gives, and what came of the entry
TakenFrom(r, fam) ==
    LET d == fam.list[1].cvssData
        score == IF d.hasBaseScore THEN d.baseScore ELSE 0
        vector == IF d.hasVectorString THEN d.vectorString ELSE "N/A"
    IN  /\ ExtractSeverity(items[r][1].cve) =
              [exc |-> "", score |-> score, vector |-> vector]
        /\ IF score >= CVSS_THRESHOLD
           THEN /\ vuln_info[r].kind = "record"
                /\ vuln_info[r].rec.cvss_score = score
                /\ vuln_info[r].rec.vector_string = vector
           ELSE vuln_info[r] = ParsedNone("below threshold")

\* C12: the (score, vector) pair comes from the first metric of the first
\* family present in the order V31, V30, V2, whatever the other families
\* hold; a first metric without base score gives score 0; no family present
\* gives (0, "N/A").
C12_SeverityPriority ==
    \A r \in Runs :
        ReachedSeverity(r) =>
            LET cve == items[r][1].cve
                present == PresentFamilies(cve)
            IN  IF present = {}
                THEN /\ ExtractSeverity(cve) =
                           [exc |-> "", score |-> 0, vector |-> "N/A"]
                     /\ vuln_info[r] = ParsedNone("below threshold")
                ELSE LET w == CHOOSE i \in present :
                                  \A j \in present : i <= j
                         fam == cve.metrics[FamilyPriority[w]]
                     IN  (fam.list # <<>> /\ fam.list[1].hasCvssData)
                             => TakenFrom(r, fam)

\* an entry whose first family scores 7.5 and whose last family scores 9.8
\* has been parsed into a record with score 7.5
C12_Witness ==
    \E r \in Runs :
        /\ ReachedSeverity(r)
        /\ items[r][1].cve.metrics.cvssMetricV31.list
              = <<Metric(CvssData(75, "AV:P")), Metric(CvssData(20, "AV:N"))>>
        /\ items[r][1].cve.metrics.cvssMetricV2.list
              = <<Metric(CvssData(98, "AV:N"))>>
        /\ vuln_info[r].kind = "record"
        /\ vuln_info[r].rec.cvss_score = 75
        /\ vuln_info[r].rec.vector_string = "AV:P"

\* the entry run r is about to parse has a publication timestamp to look at
HasPublished(r) ==
    /\ items[r][idx[r]].isRecord
    /\ items[r][idx[r]].hasCve
    /\ items[r][idx[r]].cve.hasPublished

\* the entry is filtered out as not recent iff its timestamp does not parse
\* or lies more than the window behind the instant of the evaluation, and a
\* timestamp that does not parse lets the loop go on
FilteredByAge(r) ==
    LET published == items[r][idx[r]].cve.published
    IN  /\ (vuln_info'[r] = ParsedNone("not recent")) <=>
              ~(published.parses /\ now - published.t <= RECENT_WINDOW)
        /\ ~published.parses =>
              (/\ pc'[r] = "Loop"
               /\ idx'[r] = idx[r] + 1
               /\ store' = store
               /\ sent' = sent)

RecencyStep ==
    \A r \in Runs : (ChecksEntry(r) /\ HasPublished(r)) => FilteredByAge(r)

\* C13 (recency boundary): is_recent is true iff the timestamp parses and the
\* elapsed time is <= 3600 s: true at exactly 3600 s, false at 3601 s, false
\* for a timestamp that does not parse, which is filtered out without an
\* exception leaving the loop.
C13_RecencyBoundary ==
    /\ [](/\ is_recent(Timestamp(now - RECENT_WINDOW), now)
          /\ ~is_recent(Timestamp(now - RECENT_WINDOW - 1), now)
          /\ ~is_recent(BadTimestamp, now))
    /\ [][RecencyStep]_vars

\* an entry published exactly one window before the evaluation has been
\* accepted
C13_Witness ==
    \E r \in Runs :
        /\ ParsedOnly(r)
        /\ items[r][1].hasCve
        /\ items[r][1].cve.published = Edge
        /\ vuln_info[r].kind = "record"
        /\ vuln_info[r].rec.published_date = Edge

\* a is b with some elements left out
RECURSIVE IsSubseq(_, _)
IsSubseq(a, b) ==
    IF a = <<>>
    THEN TRUE
    ELSE IF b = <<>>
         THEN FALSE
         ELSE IF Head(a) = Head(b)
              THEN IsSubseq(Tail(a), Tail(b))
              ELSE IsSubseq(a, Tail(b))

\* the ids of the entries of a document, in its order
FeedIds(doc) == [i \in 1..Len(doc) |-> IdOf(doc[i].cve)]

\* the ids run r has found new (passed the test of line 230 and went through
\* lines 231-235), in the order it found them
RECURSIVE IdsSentBy(_, _)
IdsSentBy(r, msgs) ==
    IF msgs = <<>>
    THEN <<>>
    ELSE IF Head(msgs).run = r
         THEN <<Head(msgs).id>> \o IdsSentBy(r, Tail(msgs))
         ELSE IdsSentBy(r, Tail(msgs))

\* run r returns from main() in this step
Returns(r) == pc[r] # "Done" /\ pc'[r] = "Done"

\* the artifact after the return is the count and the ids found new, or what
\* it was
ArtifactRight(r) ==
    /\ wrote'[r] <=> new_vulns[r] > 0
    /\ new_vulns[r] > 0 =>
          (/\ flag'.exists
           /\ flag'.count = new_vulns[r]
           /\ flag'.ids = IdsSentBy(r, sent)
           /\ Len(flag'.ids) = flag'.count
           /\ IsSubseq(flag'.ids, FeedIds(items[r])))
    /\ new_vulns[r] = 0 => flag' = flag

ArtifactStep ==
    /\ \A r \in Runs : Returns(r) => ArtifactRight(r)
    /\ flag' # flag => \E r \in Runs : Returns(r)

\* C14 (artifact): an invocation writes the artifact iff its count of new
\* records is > 0; what it writes is that count and then the ids of the
\* records it found new, in feed order, as many as the count.
C14_ArtifactIffNew ==
    /\ [](flag.exists => (flag.count > 0 /\ Len(flag.ids) = flag.count))
    /\ [][ArtifactStep]_vars

\* a document of two qualifying entries has been worked through, and the
\* artifact lists the two ids in the order of the document
C14_Witness ==
    \E r \in Runs :
        /\ pc[r] = "Done"
        /\ wrote[r]
        /\ snapshot = <<EdgeB, HighA>>
        /\ flag = [exists |-> TRUE, count |-> 2, ids |-> <<"CVE-2", "CVE-1">>]
        /\ new_ids[r] = flag.ids

\* run q leaves save_vuln in this step, one way or another
LeavesSave(q) ==
    /\ pc[q] = "Persisting"
    /\ pc'[q] \notin {"Persisting", "Killed"}

\* a save_vuln whose id is already stored changes nothing and returns
DuplicateIsNoOp(q) ==
    (vuln_info[q].rec.id \in Ids(store)) =>
        (/\ store' = store
         /\ pc'[q] = "Notifying")

AppendOnlyStep ==
    /\ store \subseteq store'
    /\ \A row \in store : \A other \in store' :
          other.id = row.id => other = row
    /\ \A q \in Runs : LeavesSave(q) => DuplicateIsNoOp(q)

\* C15 (append-only store): a stored row is never changed or removed; a
\* save_vuln for an id that is already stored, whatever its payload, leaves
\* the table as it was and returns normally.
C15_AppendOnly ==
    [][AppendOnlyStep]_vars

\* save_vuln has been called with score 7.5 for the id whose stored row has
\* score 9.8, and the stored row is still the one with 9.8
C15_Witness ==
    \E r \in Runs :
        /\ pc[r] = "Notifying"
        /\ vuln_info[r].rec.id = "CVE-1"
        /\ vuln_info[r].rec.cvss_score = 75
        /\ \E row \in store : row.id = "CVE-1" /\ row.cvss_score = 98
        /\ \A row \in store : row.id = "CVE-1" => row.cvss_score = 98

\* the smaller of two numbers
Min(a, b) == IF a < b THEN a ELSE b

\* C16 (reference truncation): the record of an accepted entry with n
\* references holds min(n, 3) of them, the first ones of the entry's list in
\* its order, each as its URL ('' for a reference without one).
C16_ReferenceTruncation ==
    \A r \in Runs :
        (ParsedOnly(r) /\ vuln_info[r].kind = "record") =>
            LET references == items[r][1].cve.references
                refs == vuln_info[r].rec.refs
            IN  /\ Len(refs) = Min(Len(references), MAX_REFS)
                /\ \A i \in 1..Len(refs) :
                      refs[i] = IF references[i].hasUrl
                                THEN references[i].url
                                ELSE ""

\* an entry with five reference URLs has been accepted with the first three
C16_Witness ==
    \E r \in Runs :
        /\ ParsedOnly(r)
        /\ items[r][1].cve.references = FiveRefs
        /\ vuln_info[r].kind = "record"
        /\ vuln_info[r].rec.refs = <<"u1", "u2", "u3">>

InLoop == {"Loop", "Persisting", "Notifying"}

\* the loop of run r moves over the document one entry at a time, forwards
OneAtATime(r) ==
    (pc[r] \in InLoop /\ pc'[r] \in InLoop) =>
        (/\ items'[r] = items[r]
         /\ idx'[r] \in {idx[r], idx[r] + 1}
         /\ idx'[r] = idx[r] + 1 => (pc[r] \in {"Loop", "Notifying"}
                                      /\ pc'[r] = "Loop"))

\* save_vuln is entered from the dedup check of the current entry only, and
\* send_notification from save_vuln only, with the id stored by then
InsertThenNotify(r) ==
    /\ (pc'[r] = "Persisting" /\ pc[r] # "Persisting") =>
          (/\ pc[r] = "Loop"
           /\ idx'[r] = idx[r]
           /\ vuln_info'[r].rec.id = IdOf(items[r][idx[r]].cve))
    /\ (pc'[r] = "Notifying" /\ pc[r] # "Notifying") =>
          (/\ pc[r] = "Persisting"
           /\ idx'[r] = idx[r]
           /\ vuln_info'[r] = vuln_info[r]
           /\ vuln_info[r].rec.id \in Ids(store'))

\* a notification attempt is the one for the current entry of a run that has
\* saved it, and the run turns to the next entry after it
AttemptInTurn ==
    sent' # sent =>
        \E r \in Runs :
            /\ pc[r] = "Notifying"
            /\ Len(sent') = Len(sent) + 1
            /\ SubSeq(sent', 1, Len(sent)) = sent
            /\ sent'[Len(sent')].run = r
            /\ sent'[Len(sent')].id = IdOf(items[r][idx[r]].cve)
            /\ sent'[Len(sent')].id \in Ids(store)
            /\ pc'[r] = "Loop"
            /\ idx'[r] = idx[r] + 1

OrderStep ==
    /\ \A r \in Runs : OneAtATime(r) /\ InsertThenNotify(r)
    /\ AttemptInTurn

\* C17 (ordering within a run): the entries are handled in feed order, one at
\* a time; the insert of a new record comes before its notification attempt
\* and both before the dedup check of the next entry; the notification
\* attempts of a run follow the feed order of its new records.
C17_PerRecordOrder ==
    /\ [](\A r \in Runs :
            pc[r] \in InLoop =>
                IsSubseq(IdsSentBy(r, sent),
                         FeedIds(SubSeq(items[r], 1, idx[r] - 1))))
    /\ [][OrderStep]_vars

\* a run has saved and notified the first entry, then saved the second, and
\* is about to notify it
C17_Witness ==
    \E r \in Runs :
        /\ pc[r] = "Notifying"
        /\ idx[r] = 2
        /\ items[r] = <<HighA, EdgeB>>
        /\ IdsSentBy(r, sent) = <<"CVE-1">>
        /\ vuln_info[r].rec.id = "CVE-2"
        /\ {"CVE-1", "CVE-2"} \subseteq Ids(store)

\* no element occurs twice in sequence a
NoRepeats(a) ==
    \A i \in 1..Len(a) : \A j \in 1..Len(a) : a[i] = a[j] => i = j

\* C18: with invocations one after the other, what an invocation reports is
\* what it added: the count is the number of rows it inserted, the id list is
\* the ids of those rows, each once, and every counted id is in the store.
C18_CountIsInserted ==
    \A r \in Runs :
        pc[r] \in {"Loop", "Done"} =>
            /\ new_vulns[r] = Len(inserted[r])
            /\ new_ids[r] = inserted[r]
            /\ NoRepeats(new_ids[r])
            /\ \A k \in 1..Len(new_ids[r]) : new_ids[r][k] \in Ids(store)

\* the second invocation has completed having added one row next to the one
\* the first invocation added, and reports that one id
C18_Witness ==
    \E r \in Runs :
        /\ r > 1
        /\ pc[r] = "Done"
        /\ pc[r - 1] = "Done"
        /\ inserted[r - 1] = <<"CVE-1">>
        /\ inserted[r] = <<"CVE-2">>
        /\ new_vulns[r] = 1
        /\ new_ids[r] = <<"CVE-2">>

\* a return with nothing new leaves the artifact alone; the artifact is never
\* removed, and only a return with something new rewrites it
ArtifactKeptStep ==
    /\ \A r \in Runs :
          (Returns(r) /\ new_vulns[r] = 0) => (flag' = flag /\ ~wrote'[r])
    /\ flag.exists => flag'.exists
    /\ flag' # flag => \E r \in Runs : Returns(r) /\ new_vulns[r] > 0

\* C19: an invocation that finds nothing new, also one whose two fetches both
\* fail, neither creates, truncates nor deletes the artifact: the artifact of
\* an earlier invocation is there afterwards with its old contents.
C19_ZeroNewKeepsArtifact ==
    [][ArtifactKeptStep]_vars

\* the first invocation wrote the artifact, the second has returned after two
\* empty fetches, and the artifact is still the first invocation's
C19_Witness ==
    \E r \in Runs :
        /\ r > 1
        /\ pc[r - 1] = "Done"
        /\ wrote[r - 1]
        /\ pc[r] = "Done"
        /\ Len(fetches[r]) = 2
        /\ fetches[r][2].empty
        /\ new_vulns[r] = 0
        /\ ~wrote[r]
        /\ flag = [exists |-> TRUE, count |-> new_vulns[r - 1],
                   ids |-> new_ids[r - 1]]

\* C20: is_recent has no lower bound on the elapsed time: an entry whose
\* timestamp parses and lies after the instant of the evaluation, however
\* far, is never filtered out as not recent.
C20_FutureIsRecent ==
    /\ \A ahead \in {1, RECENT_WINDOW, RECENT_WINDOW + 1, 1000 * RECENT_WINDOW} :
          is_recent(Timestamp(now + ahead), now)
    /\ \A r \in Runs :
          (/\ ParsedOnly(r)
           /\ items[r][1].isRecord
           /\ items[r][1].hasCve
           /\ items[r][1].cve.hasPublished
           /\ items[r][1].cve.published.parses
           /\ items[r][1].cve.published.t > now)
              => vuln_info[r] # ParsedNone("not recent")

\* an entry dated three windows after the evaluation has been accepted
C20_Witness ==
    \E r \in Runs :
        /\ ParsedOnly(r)
        /\ items[r][1].hasCve
        /\ items[r][1].cve.published = Future
        /\ Future.t - now > RECENT_WINDOW
        /\ vuln_info[r].kind = "record"
        /\ vuln_info[r].rec.published_date = Future

====
